---- MODULE Spec2Model ----
(***************************************************************************)
(* A model of the share analytics dashboard: the prediction loader, the    *)
(* per-ticker reduction and the filter/sort/limit pipeline of the two      *)
(* prediction tabs, the price-file resolver, the report selection and the  *)
(* feature-importance parser of the classification tab, and the sidebar    *)
(* callbacks of app.py.                                                    *)
(*                                                                         *)
(* Conventions.  A nullable value (NaN, NaT, None, a missing field) is the *)
(* empty tuple Null and a present value x is the one-element tuple <<x>>.  *)
(* ProbUp and the slider bounds are hundredths (0.70 is 70): the slider    *)
(* moves in steps of 0.01.  A table (DataFrame) is a sequence of rows.     *)
(***************************************************************************)
EXTENDS Integers, Sequences, FiniteSets, TLC

VARIABLES
    \* ---- the prediction tabs (share_tab.py, probability_tab.py)
    pred_df,        \* what load_predictions returned
    include_up,     \* FilterSpec: the arguments of the two render functions
    include_down,
    prob_range,
    sort_option,
    limit_option,
    share_pc,       \* "idle" | "warned" (empty table, early return) | "done"
    latest_df,      \* share tab: one row per ticker
    work_df,        \* share tab: filtered, sorted, limited
    total_cnt,
    shown_cnt,
    prob_pc,        \* "idle" | "warned" | "done" | "again"
    result_df,      \* probability tab: the table displayed
    sort_in,        \* the frame handed to sort_values in the probability tab
    sort_out,       \* and the frame sort_values returned for it
    again_df,       \* the pipeline applied once more, to result_df
    \* ---- the price-file resolver (share_tab.py)
    prices_dir,     \* Null (no such directory) or <<what os.listdir returns>>
    ticker,         \* the ticker to resolve
    price_idx,      \* the index: a function from keys to file names
    price_path,     \* Null (None) or <<the file resolved>>
    resolve_pc,     \* "idle" | "indexed" | "resolved"
    \* ---- the prediction loader (data_loaders.py)
    json_file,      \* Null (no file at json_path) or <<the parsed JSON root>>
    loaded_df,      \* the DataFrame returned: [columns, rows]
    load_pc,        \* "idle" | "loaded"
    \* ---- the classification tab: report selection (classification_tab.py)
    reports_dir,    \* Null (no such directory) or <<what os.listdir returns>>
    latest_file,    \* Null or <<the report chosen>>
    report_pc,      \* "idle" | "no_dir" | "no_files" | "raised" | "chosen"
    \* ---- the classification tab: feature importances
    lines,          \* raw_report.splitlines(): each line a tuple of characters
    feature_df,     \* Null (None) or <<the (Feature, Importance) rows shown>>
    feat_pc,        \* "idle" | "parsed"
    \* ---- st.session_state and the script run (app.py)
    global_include_up,
    global_include_down,
    global_sort_order,
    global_limit,
    global_prob_range,
    event,          \* the widget whose change started the last script run
    rechecked,      \* Null or <<the key the on_change callback set to True>>
    \* ---- the ticker loop of render_share_tab
    show_details,   \* ticker -> value of its "Show details" toggle
    price_files,    \* file of data/prices -> its content
    loop_i,         \* index in work_df of the row the loop is at
    loop_pc,        \* "idle" | "loop" | "end" | "raised"
    sections,       \* what the loop has rendered, one entry per row
    \* ---- st.cache_data and the calls of the two cached loaders
    cache_predictions,  \* json_path -> the frame stored for it
    cache_prices,       \* csv_path -> the frame stored for it
    returned,           \* the last call: function, path, outcome
    first_predictions,  \* json_path -> what the first call that returned gave
    first_prices        \* csv_path -> what the first call that returned gave

tabVars == <<pred_df, include_up, include_down, prob_range, sort_option,
             limit_option, share_pc, latest_df, work_df, total_cnt, shown_cnt,
             prob_pc, result_df, sort_in, sort_out, again_df>>

resolveVars == <<prices_dir, ticker, price_idx, price_path, resolve_pc>>

loadVars == <<json_file, loaded_df, load_pc>>

reportVars == <<reports_dir, latest_file, report_pc>>
featVars == <<lines, feature_df, feat_pc>>
uiVars == <<global_include_up, global_include_down, global_sort_order, global_limit,
            global_prob_range, event, rechecked>>

\* what each part of the program leaves alone
loopVars == <<show_details, price_files, loop_i, loop_pc, sections>>
cacheVars == <<cache_predictions, cache_prices, returned, first_predictions, first_prices>>
notTabs == <<resolveVars, loadVars, reportVars, featVars, uiVars, loopVars, cacheVars>>
notResolve == <<tabVars, loadVars, reportVars, featVars, uiVars, loopVars, cacheVars>>
notLoad == <<tabVars, resolveVars, reportVars, featVars, uiVars, loopVars, cacheVars>>
notReport == <<tabVars, resolveVars, loadVars, featVars, uiVars, loopVars, cacheVars>>
notFeat == <<tabVars, resolveVars, loadVars, reportVars, uiVars, loopVars, cacheVars>>
notApp == <<resolveVars, loadVars, reportVars, featVars, loopVars, cacheVars>>

\* ------------------------------------------------------------------ bounds

\* Longest prediction table drawn as an input.
MaxRows == 3

\* Most files in the price directory.
MaxFiles == 2

\* Most entries in the list of one ticker of the JSON.
MaxEntries == 2

\* Most files in the reports directory.
MaxReports == 3

\* Most lines of the report after the feature-importance header.
MaxBody == 5

\* ----------------------------------------------------------------- helpers

Null == <<>>
Some(x) == <<x>>
IsNull(o) == o = Null
Val(o) == o[1]

Range(s) == {s[i] : i \in 1..Len(s)}
Min(a, b) == IF a <= b THEN a ELSE b

SeqsUpTo(S, n) == UNION {[1..k -> S] : k \in 0..n}

\* The rows of df at the positions that satisfy Keep, in df's order.
RECURSIVE KeepAt(_, _, _)
KeepAt(df, Keep(_), i) ==
    IF i > Len(df) THEN <<>>
    ELSE (IF Keep(i) THEN <<df[i]>> ELSE <<>>) \o KeepAt(df, Keep, i + 1)

\* Every reordering of df (as sequences; rows may repeat).
Reorderings(df) ==
    LET n == Len(df)
        perms == {p \in [1..n -> 1..n] : \A i, j \in 1..n : i # j => p[i] # p[j]}
    IN  {[i \in 1..n |-> df[p[i]]] : p \in perms}

\* ------------------------------------------------------- values and orders

\* str.upper() on the Signal strings of the model; astype(str) turns a
\* missing Signal into the text "nan", upper-cased "NAN".
StrUpper(s) ==
    CASE s = "up" -> "UP"
      [] s = "Up" -> "UP"
      [] s = "down" -> "DOWN"
      [] s = "hold" -> "HOLD"
      [] s = "nan" -> "NAN"
      [] OTHER -> s

AsStr(o) == IF IsNull(o) THEN "nan" ELSE Val(o)

\* Python's order on the ticker strings of the model (code point order).
TickerOrder == <<"A", "B", "C">>
TickerRank(t) == CHOOSE i \in 1..Len(TickerOrder) : TickerOrder[i] = t
StrLess(a, b) == TickerRank(a) < TickerRank(b)

\* ----------------------------------------------- filter / sort / limit

\* share_tab.py 138-144, probability_tab.py 31-37
SignalsSelectedNoFallback(up, down) ==
    (IF up THEN <<"UP">> ELSE <<>>) \o (IF down THEN <<"DOWN">> ELSE <<>>)

SignalsSelected(up, down) ==
    LET s == (IF up THEN <<"UP">> ELSE <<>>) \o (IF down THEN <<"DOWN">> ELSE <<>>)
    IN  IF s = <<>> THEN <<"UP", "DOWN">> ELSE s

Signal_u(r) == StrUpper(AsStr(r.Signal))

FilterSignal(df, up, down) ==
    SelectSeq(df, LAMBDA r : Signal_u(r) \in Range(SignalsSelected(up, down)))

\* fillna(-1), in hundredths
FillNa == -100

\* pd.to_numeric(ProbUp, errors='coerce').fillna(-1)
ProbNumeric(r) == IF IsNull(r.ProbUp) THEN FillNa ELSE Val(r.ProbUp)

\* pmin, pmax = prob_range if it is a pair, else (0.0, 1.0)
PMin(pr) == IF Len(pr) = 2 THEN pr[1] ELSE 0
PMax(pr) == IF Len(pr) = 2 THEN pr[2] ELSE 100

\* the range filter with both comparisons strict
FilterProbExclusive(df, pr) ==
    SelectSeq(df, LAMBDA r : ProbNumeric(r) > PMin(pr) /\ ProbNumeric(r) < PMax(pr))

FilterProb(df, pr) ==
    SelectSeq(df, LAMBDA r : ProbNumeric(r) >= PMin(pr) /\ ProbNumeric(r) <= PMax(pr))

Filtered(df, up, down, pr) == FilterProb(FilterSignal(df, up, down), pr)

\* The order sort_values(by, ascending) asks for; NaN goes last either way.
ProbBefore(a, b, asc) ==
    IF IsNull(b.ProbUp) THEN TRUE
    ELSE IF IsNull(a.ProbUp) THEN FALSE
    ELSE IF asc THEN Val(a.ProbUp) <= Val(b.ProbUp)
                ELSE Val(a.ProbUp) >= Val(b.ProbUp)

TickerBefore(a, b) ==
    IF IsNull(b.Ticker) THEN TRUE
    ELSE IF IsNull(a.Ticker) THEN FALSE
    ELSE ~StrLess(Val(b.Ticker), Val(a.Ticker))

InOrder(a, b, opt) ==
    CASE opt = "ProbUp descending" -> ProbBefore(a, b, FALSE)
      [] opt = "ProbUp ascending" -> ProbBefore(a, b, TRUE)
      [] OTHER -> TickerBefore(a, b)

IsSorted(df, opt) == \A i \in 1..Len(df) - 1 : InOrder(df[i], df[i + 1], opt)

\* DataFrame.sort_values on one column with the default kind='quicksort':
\* the result is sorted, and the order of rows with equal keys is whatever
\* the sort of the installed numpy leaves (it is not a stable sort).
SortValues(df, opt) == {s \in Reorderings(df) : IsSorted(s, opt)}

\* df.tail(n) in place of df.head(n)
TailLimit(df, lim) ==
    IF lim.kind = "int" THEN SubSeq(df, Len(df) - Min(lim.n, Len(df)) + 1, Len(df)) ELSE df

\* df.head(n) for an int limit; "All" (not an int) keeps the frame.
HeadLimit(df, lim) ==
    IF lim.kind = "int" THEN SubSeq(df, 1, Min(lim.n, Len(df))) ELSE df

\* Every table the pipeline can return for df.
PipelineOutcomes(df, up, down, pr, opt, lim) ==
    {HeadLimit(s, lim) : s \in SortValues(Filtered(df, up, down, pr), opt)}

\* ------------------------------------------------- per-ticker reduction

\* sort_values(["Ticker", "Date"]): lexicographic, NaN/NaT last, stable.
LexLess(a, b) ==
    IF a.Ticker # b.Ticker
    THEN (IF IsNull(a.Ticker) THEN FALSE
          ELSE IF IsNull(b.Ticker) THEN TRUE
          ELSE StrLess(Val(a.Ticker), Val(b.Ticker)))
    ELSE (IF a.Date = b.Date THEN FALSE
          ELSE IF IsNull(a.Date) THEN FALSE
          ELSE IF IsNull(b.Date) THEN TRUE
          ELSE Val(a.Date) < Val(b.Date))

\* r placed after every row that is not greater than it (stable insertion)
InsertStable(s, r) ==
    LET k == Cardinality({i \in 1..Len(s) : ~LexLess(r, s[i])})
    IN  SubSeq(s, 1, k) \o <<r>> \o SubSeq(s, k + 1, Len(s))

RECURSIVE SortTickerDate(_)
SortTickerDate(df) ==
    IF df = <<>> THEN <<>>
    ELSE InsertStable(SortTickerDate(SubSeq(df, 1, Len(df) - 1)), df[Len(df)])

DropNaTicker(df) == SelectSeq(df, LAMBDA r : ~IsNull(r.Ticker))

\* groupby("Ticker").tail(1): the last row of each group, in frame order
GroupTail(df) ==
    KeepAt(df, LAMBDA i : \A j \in (i + 1)..Len(df) : df[j].Ticker # df[i].Ticker, 1)

LatestPerTicker(df) == GroupTail(DropNaTicker(SortTickerDate(df)))

\* ---------------------------------------------------- the inputs drawn

Row(t, d, p, s) == [Ticker |-> t, Date |-> d, ProbUp |-> p, Signal |-> s]

\* Rows that exercise the filters and the sort: equal ProbUp on different
\* tickers, equal tickers, a ProbUp on each slider bound and outside it, a
\* missing ProbUp, lower-case and missing signals.
PipeRows ==
    { Row(Some("A"), Some(1), Some(70), Some("UP")),
      Row(Some("B"), Some(1), Some(70), Some("down")),
      Row(Some("A"), Some(2), Some(30), Some("DOWN")),
      Row(Some("B"), Some(1), Null, Some("Up")),
      Row(Some("C"), Some(2), Some(90), Null),
      Row(Some("C"), Some(2), Some(90), Some("UP")) }

\* Rows that exercise the reduction: several dates per ticker, missing
\* dates, a missing ticker.
ReduceRows ==
    { Row(Some("A"), d, Some(50), Some(s)) :
        d \in {Null, Some(1), Some(2)}, s \in {"UP", "DOWN"} }
    \cup { Row(Some("B"), Some(1), Some(50), Some("UP")),
           Row(Some("B"), Null, Some(50), Some("DOWN")),
           Row(Null, Some(1), Some(50), Some("UP")) }

ProbRanges == { <<0, 100>>, <<30, 70>> }
SortOptions == { "ProbUp descending", "ProbUp ascending", "Alphabetical (Ticker)" }
IntLimit(n) == [kind |-> "int", n |-> n]
AllLimit == [kind |-> "All", n |-> 0]
LimitOptions == { IntLimit(1), IntLimit(2), AllLimit }

TabsIdle ==
    /\ share_pc = "idle"
    /\ prob_pc = "idle"
    /\ latest_df = <<>>
    /\ work_df = <<>>
    /\ total_cnt = 0
    /\ shown_cnt = 0
    /\ result_df = <<>>
    /\ sort_in = <<>>
    /\ sort_out = <<>>
    /\ again_df = <<>>

InitTabs ==
    /\ TabsIdle
    /\ \/ /\ pred_df \in SeqsUpTo(PipeRows, MaxRows)
          /\ include_up \in BOOLEAN
          /\ include_down \in BOOLEAN
          /\ prob_range \in ProbRanges
          /\ sort_option \in SortOptions
          /\ limit_option \in LimitOptions
       \/ /\ pred_df \in SeqsUpTo(ReduceRows, MaxRows)
          /\ include_up = TRUE
          /\ include_down \in BOOLEAN
          /\ prob_range = <<0, 100>>
          /\ sort_option = "Alphabetical (Ticker)"
          /\ limit_option = AllLimit

\* The tables for the range filter and the limit: the rows with a Signal.
SignalRows == {r \in PipeRows : ~IsNull(r.Signal)}

InitPipeline ==
    /\ TabsIdle
    /\ pred_df \in SeqsUpTo(SignalRows, MaxRows)
    /\ include_up \in BOOLEAN
    /\ include_down \in BOOLEAN
    /\ prob_range \in ProbRanges
    /\ sort_option \in SortOptions
    /\ limit_option \in LimitOptions

\* ------------------------------------------------------------ the tabs

\* render_share_tab(up, down, pr, lim, opt) on the loaded frame df, up to
\* the summary line (share_tab.py 117-164)
ShareTabRun(df, up, down, pr, opt, lim) ==
    IF df = <<>>
    THEN /\ share_pc' = "warned"
         /\ latest_df' = <<>>
         /\ work_df' = <<>>
         /\ total_cnt' = 0
         /\ shown_cnt' = 0
    ELSE LET latest == LatestPerTicker(df)
         IN  \E out \in PipelineOutcomes(latest, up, down, pr, opt, lim) :
                 /\ latest_df' = latest
                 /\ work_df' = out
                 /\ total_cnt' = Len(latest)
                 /\ shown_cnt' = Len(out)
                 /\ share_pc' = "done"

RenderShareTab ==
    /\ share_pc = "idle"
    /\ ShareTabRun(pred_df, include_up, include_down, prob_range, sort_option,
                   limit_option)
    /\ UNCHANGED <<pred_df, include_up, include_down, prob_range, sort_option,
                   limit_option, prob_pc, result_df, sort_in, sort_out, again_df>>
    /\ UNCHANGED notTabs

\* The table render_probability_tab filters: the loaded frame itself.
ProbabilityInput(df) == df

\* render_probability_tab(up, down, pr, lim, opt) on the loaded frame df, up
\* to the table displayed (probability_tab.py 19-55)
ProbabilityTabRun(df, up, down, pr, opt, lim) ==
    IF df = <<>>
    THEN /\ prob_pc' = "warned"
         /\ result_df' = <<>>
         /\ sort_in' = <<>>
         /\ sort_out' = <<>>
    ELSE LET inp == Filtered(ProbabilityInput(df), up, down, pr)
         IN  \E s \in SortValues(inp, opt) :
                 /\ sort_in' = inp
                 /\ sort_out' = s
                 /\ result_df' = HeadLimit(s, lim)
                 /\ prob_pc' = "done"

\* main() renders it after the share tab.
RenderProbabilityTab ==
    /\ share_pc # "idle"
    /\ prob_pc = "idle"
    /\ ProbabilityTabRun(pred_df, include_up, include_down, prob_range, sort_option,
                         limit_option)
    /\ UNCHANGED <<pred_df, include_up, include_down, prob_range, sort_option,
                   limit_option, share_pc, latest_df, work_df, total_cnt,
                   shown_cnt, again_df>>
    /\ UNCHANGED notTabs

\* The pipeline of probability_tab.py 28-50 run on its own output with the
\* same arguments.  sort_values is a function of the frame it is given: on
\* the frame it sorted before it returns what it returned before.
ReapplyPipeline ==
    /\ prob_pc = "done"
    /\ LET inp == Filtered(result_df, include_up, include_down, prob_range)
       IN  \E s \in SortValues(inp, sort_option) :
               /\ (inp = sort_in => s = sort_out)
               /\ again_df' = HeadLimit(s, limit_option)
    /\ prob_pc' = "again"
    /\ UNCHANGED <<pred_df, include_up, include_down, prob_range, sort_option,
                   limit_option, share_pc, latest_df, work_df, total_cnt,
                   shown_cnt, result_df, sort_in, sort_out>>
    /\ UNCHANGED notTabs

\* ------------------------------------------------- price-file resolver

\* A string is a tuple of characters.  str.lower() on the model's letters:
LowerChar(c) ==
    CASE c = "A" -> "a"
      [] c = "B" -> "b"
      [] c = "C" -> "c"
      [] c = "U" -> "u"
      [] c = "S" -> "s"
      [] c = "Z" -> "z"
      [] OTHER -> c

Lower(s) == [i \in 1..Len(s) |-> LowerChar(s[i])]

\* s.replace(old, new) for a one-character old; new is a string
RECURSIVE Replace(_, _, _)
Replace(s, old, new) ==
    IF s = <<>> THEN <<>>
    ELSE (IF Head(s) = old THEN new ELSE <<Head(s)>>) \o Replace(Tail(s), old, new)

\* s.split("_")[0]
RECURSIVE BeforeUnderscore(_)
BeforeUnderscore(s) ==
    IF s = <<>> \/ Head(s) = "_" THEN <<>>
    ELSE <<Head(s)>> \o BeforeUnderscore(Tail(s))

\* A file name is its stem and its extension (os.path.splitext).
File(stem, ext) == [stem |-> stem, ext |-> ext]
IsCsv(f) == Lower(f.ext) = <<".", "c", "s", "v">>

\* the keys one file registers (share_tab.py 28-39)
IndexKeys(f) ==
    LET stem == f.stem
        prefix == BeforeUnderscore(stem)
    IN  { Lower(stem),
          Lower(prefix),
          Lower(Replace(prefix, "-", <<"_">>)),
          Lower(Replace(prefix, "-", <<>>)),
          Lower(Replace(prefix, ".", <<"-">>)),
          Lower(Replace(prefix, ".", <<>>)) }

\* idx.setdefault(key, path) for each key of f: a key already there stays
Register(idx, f) ==
    [k \in DOMAIN idx \cup IndexKeys(f) |-> IF k \in DOMAIN idx THEN idx[k] ELSE f]

EmptyIndex == [k \in {} |-> File(<<>>, <<>>)]

RECURSIVE IndexOf(_)
IndexOf(listing) ==
    IF listing = <<>> THEN EmptyIndex
    ELSE LET f == listing[Len(listing)]
             idx == IndexOf(SubSeq(listing, 1, Len(listing) - 1))
         IN  IF IsCsv(f) THEN Register(idx, f) ELSE idx

\* _build_price_index
BuildIndex(dir) == IF IsNull(dir) THEN EmptyIndex ELSE IndexOf(Val(dir))

\* the candidates of _resolve_price_path, in the order tried
TickerCandidates(t) ==
    << t,
       Replace(t, "-", <<"_">>),
       Replace(t, "-", <<>>),
       Replace(t, ".", <<"-">>),
       Replace(t, ".", <<>>) >>

\* the key looked up for candidate c
LookupKeyExact(c) == c

LookupKey(c) == Lower(c)

\* _resolve_price_path: the first candidate whose key is in the index
ResolvePath(t, idx) ==
    LET cands == TickerCandidates(t)
        hits == {i \in 1..Len(cands) : LookupKey(cands[i]) \in DOMAIN idx}
    IN  IF hits = {} THEN Null
        ELSE Some(idx[LookupKey(cands[CHOOSE i \in hits : \A j \in hits : i <= j])])

Csv == <<".", "c", "s", "v">>

Stems ==
    { <<"A", "_", "U", "S">>, <<"a", "_", "u", "s">>, <<"A", "-", "B", "_", "U", "S">>,
      <<"A", ".", "B", "_", "U">>, <<"A", "B", "_", "U", "S">>, <<"A", "B">>,
      <<"A">>, <<"B", "_", "A">>, <<"_", "A">> }

Files ==
    {File(st, Csv) : st \in Stems}
    \cup { File(<<"A", "_", "U", "S">>, <<".", "C", "S", "V">>),
           File(<<"A", "_", "U", "S">>, <<".", "t", "x", "t">>),
           File(<<"Z">>, <<".", "t", "x", "t">>) }

Tickers ==
    { <<"A">>, <<"a">>, <<"A", "-", "B">>, <<"a", ".", "b">>, <<"A", "B">>,
      <<"a", "B">>, <<"B">>, <<"Z">>, <<>> }

\* a directory lists each name once, in an order of its own
Listings ==
    {l \in SeqsUpTo(Files, MaxFiles) : \A i, j \in 1..Len(l) : i # j => l[i] # l[j]}

ResolveIdle ==
    /\ prices_dir = Null
    /\ ticker = <<>>
    /\ price_idx = EmptyIndex
    /\ price_path = Null
    /\ resolve_pc = "idle"

InitResolve ==
    /\ prices_dir \in {Null} \cup {Some(l) : l \in Listings}
    /\ ticker \in Tickers
    /\ price_idx = EmptyIndex
    /\ price_path = Null
    /\ resolve_pc = "idle"

\* price_idx = _build_price_index(prices_dir)   (share_tab.py 118)
BuildPriceIndex ==
    /\ resolve_pc = "idle"
    /\ price_idx' = BuildIndex(prices_dir)
    /\ resolve_pc' = "indexed"
    /\ UNCHANGED <<prices_dir, ticker, price_path>>
    /\ UNCHANGED notResolve

\* price_path = _resolve_price_path(ticker, price_idx)   (share_tab.py 201)
ResolvePricePath ==
    /\ resolve_pc = "indexed"
    /\ price_path' = ResolvePath(ticker, price_idx)
    /\ resolve_pc' = "resolved"
    /\ UNCHANGED <<prices_dir, ticker, price_idx>>
    /\ UNCHANGED notResolve

\* ------------------------------------------------------ prediction loader

\* JSON scalars, tagged; a JSON object is a function from field names to
\* scalars; a list entry or a value of the root object is tagged as well.
JNum(n) == [k |-> "num", v |-> n]
JStr(x) == [k |-> "str", v |-> x]
JNull == [k |-> "null", v |-> 0]
JObj(o) == [k |-> "obj", v |-> o]
JList(l) == [k |-> "list", v |-> l]
Pair(key, value) == [key |-> key, value |-> value]

RequiredColumns == <<"Ticker", "Date", "ProbUp", "Signal">>

\* float(text) for the texts of the model, as hundredths
ParseNumber(x) ==
    CASE x = "0.7" -> Some(70)
      [] x = "1" -> Some(100)
      [] OTHER -> Null

\* pd.to_datetime(value, unit="ms", errors="coerce") on one cell
ToDatetimeMs(c) ==
    CASE c.k = "num" -> Some(c.v)
      [] c.k = "str" -> (IF IsNull(ParseNumber(c.v)) THEN Null
                         ELSE Some(Val(ParseNumber(c.v)) \div 100))
      [] OTHER -> Null

\* pd.to_numeric(value, errors="coerce") on one cell
ToNumeric(c) ==
    CASE c.k = "num" -> Some(c.v)
      [] c.k = "str" -> ParseNumber(c.v)
      [] OTHER -> Null

\* {"Ticker": tk, **e}: the fields of e, and Ticker unless e has its own
WithTicker(tk, e) ==
    [f \in DOMAIN e \cup {"Ticker"} |-> IF f \in DOMAIN e THEN e[f] ELSE JStr(tk)]

WithoutTicker(tk, e) == e

TickerRecord(tk, e) == WithTicker(tk, e)

\* the records one key of the root object contributes (data_loaders.py 20-26)
RecordsOfEntry(tk, entries) ==
    CASE entries.k = "list" ->
            LET objs == SelectSeq(entries.v, LAMBDA e : e.k = "obj")
            IN  [i \in 1..Len(objs) |-> TickerRecord(tk, objs[i].v)]
      [] entries.k = "obj" -> <<TickerRecord(tk, entries.v)>>
      [] OTHER -> <<>>

RECURSIVE RecordsOfDict(_)
RecordsOfDict(items) ==
    IF items = <<>> THEN <<>>
    ELSE RecordsOfEntry(items[1].key, items[1].value) \o RecordsOfDict(Tail(items))

\* raw after lines 18-27: a root object is flattened, a root list is kept
Flatten(root) ==
    IF root.k = "dict" THEN RecordsOfDict(root.v)
    ELSE [i \in 1..Len(root.v) |-> root.v[i].v]

\* pd.DataFrame(list of dicts): the columns are the keys met, a cell a
\* record does not have is NaN (JNull here); then the four required
\* columns are added where missing.
FrameColumns(records) ==
    UNION {DOMAIN records[i] : i \in 1..Len(records)} \cup Range(RequiredColumns)

Cell(rec, col) == IF col \in DOMAIN rec THEN rec[col] ELSE JNull

\* the coercions of lines 34-35
Coerce(col, c) ==
    CASE col = "Date" -> ToDatetimeMs(c)
      [] col = "ProbUp" -> ToNumeric(c)
      [] OTHER -> c

Frame(records) ==
    LET cols == FrameColumns(records)
    IN  [columns |-> cols,
         rows |-> [i \in 1..Len(records) |->
                      [col \in cols |-> Coerce(col, Cell(records[i], col))]]]

EmptyFrame == [columns |-> Range(RequiredColumns), rows |-> <<>>]

\* load_predictions(json_path)
LoadJson(file) ==
    IF IsNull(file) THEN EmptyFrame ELSE Frame(Flatten(Val(file)))

\* objects without a Ticker field, as they stand in the list of a ticker
EntryObjects ==
    { ("Date" :> JNum(0)) @@ ("ProbUp" :> JNum(70)) @@ ("Signal" :> JStr("UP")),
      ("Date" :> JNum(1)) @@ ("ProbUp" :> JStr("0.7")) @@ ("Signal" :> JStr("DOWN")),
      ("Date" :> JStr("x")) @@ ("ProbUp" :> JStr("x")) @@ ("Model" :> JStr("m")),
      ("Date" :> JNull) @@ ("Signal" :> JStr("UP")) }

EntryLists == SeqsUpTo({JObj(o) : o \in EntryObjects} \cup {JNum(1)}, MaxEntries)

DictValues == {JList(l) : l \in EntryLists} \cup {JObj(o) : o \in EntryObjects} \cup {JNum(1)}

\* the keys of the root object, in each order the file can hold them
JsonKeys == {"A", "B"}
KeyOrders ==
    {ks \in SeqsUpTo(JsonKeys, Cardinality(JsonKeys)) :
        \A i, j \in 1..Len(ks) : i # j => ks[i] # ks[j]}

DictRoot(ks, vals) == [k |-> "dict", v |-> [i \in 1..Len(ks) |-> Pair(ks[i], vals[i])]]

\* the flat list that carries the same objects, each with its key as Ticker
RECURSIVE FlatItems(_)
FlatItems(items) ==
    IF items = <<>> THEN <<>>
    ELSE [i \in 1..Len(items[1].value.v) |->
              JObj(("Ticker" :> JStr(items[1].key)) @@ items[1].value.v[i].v)]
         \o FlatItems(Tail(items))

FlatOf(root) == [k |-> "list", v |-> FlatItems(root.v)]

\* roots that map each ticker to a list of objects
IsDictOfObjectLists(root) ==
    /\ root.k = "dict"
    /\ \A i \in 1..Len(root.v) :
          /\ root.v[i].value.k = "list"
          /\ \A j \in 1..Len(root.v[i].value.v) : root.v[i].value.v[j].k = "obj"

LoadIdle ==
    /\ json_file = Null
    /\ loaded_df = EmptyFrame
    /\ load_pc = "idle"

\* no file, a root object, or the flat list of a root object of lists
InitLoad ==
    /\ \/ json_file = Null
       \/ \E ks \in KeyOrders : \E vals \in [1..Len(ks) -> DictValues] :
             \/ json_file = Some(DictRoot(ks, vals))
             \/ /\ IsDictOfObjectLists(DictRoot(ks, vals))
                /\ json_file = Some(FlatOf(DictRoot(ks, vals)))
    /\ loaded_df = EmptyFrame
    /\ load_pc = "idle"

\* df = load_predictions(json_path)
LoadPredictions ==
    /\ load_pc = "idle"
    /\ loaded_df' = LoadJson(json_file)
    /\ load_pc' = "loaded"
    /\ UNCHANGED json_file
    /\ UNCHANGED notLoad

\* ------------------------------------------------------ report selection

\* A name in the reports directory: what precedes the body, the body, and
\* the extension.  The names of the model carry the prefix and the
\* extension at most once, so the regular expression of extract_timestamp
\* can only match the whole name.
Name(prefix, body, ext) == [prefix |-> prefix, body |-> body, ext |-> ext]

\* f.startswith("Klassifikationsreport_") and f.endswith(".txt")
IsReportFile(f) == f.prefix = "Klassifikationsreport_" /\ f.ext = ".txt"

\* the bodies that are eight digits, an underscore and six digits
IsTimestampText(b) ==
    b \in {"20231231_235959", "20240101_120000", "20240102_090000", "20241301_000000"}

\* extract_timestamp: group 1 of the match, else ""
ExtractTimestamp(f) ==
    IF IsReportFile(f) /\ IsTimestampText(f.body) THEN f.body ELSE ""

\* pd.to_datetime(text, format="%Y%m%d_%H%M%S"): "" is NaT (Null), a date
\* that does not exist raises ("raises"), else <<date, time of day>>
ToDatetime(text) ==
    CASE text = "" -> Null
      [] text = "20231231_235959" -> Some(<<20231231, 235959>>)
      [] text = "20240101_120000" -> Some(<<20240101, 120000>>)
      [] text = "20240102_090000" -> Some(<<20240102, 90000>>)
      [] OTHER -> Some(<<0, 0>>)

Raises(text) == text = "20241301_000000"

SortKey(f) == ToDatetime(ExtractTimestamp(f))

\* a < b on the sort keys: every comparison with NaT is False
KeyLess(a, b) ==
    /\ ~IsNull(a)
    /\ ~IsNull(b)
    /\ \/ Val(a)[1] < Val(b)[1]
       \/ Val(a)[1] = Val(b)[1] /\ Val(a)[2] < Val(b)[2]

FileLess(f, g) == KeyLess(SortKey(f), SortKey(g))

\* sorted(): CPython's list.sort on fewer than 64 items is count_run (the
\* leading run, reversed when strictly descending) followed by a binary
\* insertion sort of the rest.
RECURSIVE RunEnd(_, _, _)
RunEnd(a, i, desc) ==
    IF i >= Len(a) THEN i
    ELSE IF desc THEN (IF FileLess(a[i + 1], a[i]) THEN RunEnd(a, i + 1, desc) ELSE i)
    ELSE (IF FileLess(a[i + 1], a[i]) THEN i ELSE RunEnd(a, i + 1, desc))

Reverse(a) == [i \in 1..Len(a) |-> a[Len(a) + 1 - i]]

\* the place (0-based) binarysort finds for pivot in the sorted a[l+1..r]
RECURSIVE BinaryPlace(_, _, _, _)
BinaryPlace(a, pivot, l, r) ==
    IF l >= r THEN l
    ELSE LET m == l + ((r - l) \div 2)
         IN  IF FileLess(pivot, a[m + 1]) THEN BinaryPlace(a, pivot, l, m)
             ELSE BinaryPlace(a, pivot, m + 1, r)

RECURSIVE BinarySort(_, _)
BinarySort(done, rest) ==
    IF rest = <<>> THEN done
    ELSE LET at == BinaryPlace(done, Head(rest), 0, Len(done))
         IN  BinarySort(SubSeq(done, 1, at) \o <<Head(rest)>> \o SubSeq(done, at + 1, Len(done)),
                        Tail(rest))

PySorted(a) ==
    IF Len(a) < 2 THEN a
    ELSE LET desc == FileLess(a[2], a[1])
             n == RunEnd(a, 2, desc)
             run == IF desc THEN Reverse(SubSeq(a, 1, n)) ELSE SubSeq(a, 1, n)
         IN  BinarySort(run, SubSeq(a, n + 1, Len(a)))

ReportNames ==
    { Name("Klassifikationsreport_", b, ".txt") :
        b \in {"20231231_235959", "20240101_120000", "20240102_090000",
               "20241301_000000", "final"} }
    \cup { Name("Report_", "20240102_090000", ".txt"),
           Name("Klassifikationsreport_", "20240102_090000", ".bak") }

ReportListings ==
    {l \in SeqsUpTo(ReportNames, MaxReports) : \A i, j \in 1..Len(l) : i # j => l[i] # l[j]}

ReportIdle ==
    /\ reports_dir = Null
    /\ latest_file = Null
    /\ report_pc = "idle"

InitReport ==
    /\ reports_dir \in {Null} \cup {Some(l) : l \in ReportListings}
    /\ latest_file = Null
    /\ report_pc = "idle"

\* render_classification_tab, lines 18-37
SelectReport ==
    /\ report_pc = "idle"
    /\ IF IsNull(reports_dir)
       THEN report_pc' = "no_dir" /\ UNCHANGED latest_file
       ELSE LET report_files == SelectSeq(Val(reports_dir), IsReportFile)
            IN  IF report_files = <<>>
                THEN report_pc' = "no_files" /\ UNCHANGED latest_file
                ELSE IF \E i \in 1..Len(report_files) :
                            Raises(ExtractTimestamp(report_files[i]))
                THEN report_pc' = "raised" /\ UNCHANGED latest_file
                ELSE LET sorted_files == PySorted(report_files)
                     IN  /\ latest_file' = Some(sorted_files[Len(sorted_files)])
                         /\ report_pc' = "chosen"
    /\ UNCHANGED reports_dir
    /\ UNCHANGED notReport

\* --------------------------------------------------- feature importances

IsSpace(c) == c = " "

\* s.lstrip(), s.rstrip(), s.strip()
RECURSIVE LStrip(_)
LStrip(s) == IF s # <<>> /\ IsSpace(Head(s)) THEN LStrip(Tail(s)) ELSE s

RECURSIVE RStrip(_)
RStrip(s) ==
    IF s # <<>> /\ IsSpace(s[Len(s)]) THEN RStrip(SubSeq(s, 1, Len(s) - 1)) ELSE s

Strip(s) == RStrip(LStrip(s))

\* the leading token of s (up to the first space)
RECURSIVE FirstToken(_)
FirstToken(s) ==
    IF s = <<>> \/ IsSpace(Head(s)) THEN <<>>
    ELSE <<Head(s)>> \o FirstToken(Tail(s))

\* s.split(): the maximal runs of non-space characters
RECURSIVE Split(_)
Split(s) ==
    LET t == LStrip(s)
    IN  IF t = <<>> THEN <<>>
        ELSE <<FirstToken(t)>> \o Split(SubSeq(t, Len(FirstToken(t)) + 1, Len(t)))

\* " ".join(parts)
RECURSIVE JoinSpace(_)
JoinSpace(parts) ==
    IF parts = <<>> THEN <<>>
    ELSE IF Len(parts) = 1 THEN parts[1]
    ELSE parts[1] \o <<" ">> \o JoinSpace(Tail(parts))

StartsWith(s, pre) == Len(s) >= Len(pre) /\ SubSeq(s, 1, Len(pre)) = pre

\* pre in s
Contains(s, pre) ==
    \E i \in 1..(Len(s) - Len(pre) + 1) : SubSeq(s, i, i + Len(pre) - 1) = pre

Digits == <<"0", "1", "2", "3", "4", "5", "6", "7", "8", "9">>
IsDigitChar(c) == \E d \in 1..Len(Digits) : Digits[d] = c
DigitValue(c) == (CHOOSE d \in 1..Len(Digits) : Digits[d] = c) - 1

\* t.isdigit() on the characters of the model
IsDigit(t) == t # <<>> /\ \A i \in 1..Len(t) : IsDigitChar(t[i])

\* int(t) for a t of digits
RECURSIVE IntOf(_)
IntOf(t) ==
    IF t = <<>> THEN 0
    ELSE 10 * IntOf(SubSeq(t, 1, Len(t) - 1)) + DigitValue(t[Len(t)])

FeaturePhrase ==
    <<"F", "e", "a", "t", "u", "r", "e", " ",
      "I", "m", "p", "o", "r", "t", "a", "n", "c", "e", "s">>
DtypePrefix == <<"d", "t", "y", "p", "e", ":">>

\* next(i for i, ln in enumerate(lines) if "Feature Importances" in ln), 1-based;
\* 0 stands for None
FeatHeaderIdx(ls) ==
    LET hits == {i \in 1..Len(ls) : Contains(ls[i], FeaturePhrase)}
    IN  IF hits = {} THEN 0 ELSE CHOOSE i \in hits : \A j \in hits : i <= j

\* the break of line 101-102
EndsBlock(ln) == ln = <<>> \/ StartsWith(ln, DtypePrefix)

\* the test of line 104
HasImportance(parts) == Len(parts) >= 2 /\ IsDigit(parts[Len(parts)])

ImportancePair(parts) ==
    [Feature |-> JoinSpace(SubSeq(parts, 1, Len(parts) - 1)),
     Importance |-> IntOf(parts[Len(parts)])]

\* what a line that is not of the shape does to the scan: it is skipped
RECURSIVE ScanStopAtMisfit(_, _)
ScanStopAtMisfit(ls, k) ==
    IF k > Len(ls) THEN <<>>
    ELSE LET ln == Strip(ls[k])
             parts == Split(ln)
         IN  IF EndsBlock(ln) THEN <<>>
             ELSE IF HasImportance(parts)
                  THEN <<ImportancePair(parts)>> \o ScanStopAtMisfit(ls, k + 1)
                  ELSE <<>>

\* the loop of lines 99-107, from line k on
RECURSIVE Scan(_, _)
Scan(ls, k) ==
    IF k > Len(ls) THEN <<>>
    ELSE LET ln == Strip(ls[k])
             parts == Split(ln)
         IN  IF EndsBlock(ln) THEN <<>>
             ELSE (IF HasImportance(parts) THEN <<ImportancePair(parts)>> ELSE <<>>)
                  \o Scan(ls, k + 1)

ImportanceLines(ls, k) == Scan(ls, k)

\* sort_values("Importance", ascending=False), default kind: rows of equal
\* importance in any order
SortByImportance(rows) ==
    {s \in Reorderings(rows) :
        \A i \in 1..Len(s) - 1 : s[i].Importance >= s[i + 1].Importance}

\* the lines of the model, as text
Sp == <<" ">>
LineYNine == Sp \o <<"y">> \o Sp \o Sp \o <<"9">> \o Sp
LineABTwelve == <<"a">> \o Sp \o <<"b">> \o Sp \o <<"1", "2">>
LineBlank == <<>>
LineDtype == DtypePrefix \o Sp \o <<"i", "n", "t">>
LineNotInt == <<"z">> \o Sp \o <<"1", ".", "5">>
LineOneToken == <<"7">>
LineHeader == <<"=">> \o Sp \o FeaturePhrase \o <<":">>

BodyLines ==
    { LineYNine, LineABTwelve, LineBlank, LineDtype, LineNotInt, LineOneToken }

\* what precedes the body: nothing (no header at all), the header, or a
\* line of the importance shape and then the header
Preambles == { <<>>, <<LineHeader>>, <<LineABTwelve, LineHeader>> }

FeatIdle ==
    /\ lines = <<>>
    /\ feature_df = Null
    /\ feat_pc = "idle"

InitFeat ==
    /\ \E pre \in Preambles : \E body \in SeqsUpTo(BodyLines, MaxBody) :
          lines = pre \o body
    /\ feature_df = Null
    /\ feat_pc = "idle"

\* render_classification_tab, lines 94-113
ParseFeatureImportances ==
    /\ feat_pc = "idle"
    /\ LET feat_header_idx == FeatHeaderIdx(lines)
           importance_lines == ImportanceLines(lines, feat_header_idx + 1)
       IN  IF feat_header_idx = 0 \/ importance_lines = <<>>
           THEN feature_df' = Null
           ELSE \E s \in SortByImportance(importance_lines) : feature_df' = Some(s)
    /\ feat_pc' = "parsed"
    /\ UNCHANGED lines
    /\ UNCHANGED notFeat

\* ------------------------------------------ the ticker loop (share_tab.py)

\* The content of a price file: Null for a file of zero bytes, else
\* <<the Date column as pd.to_datetime(errors="coerce") reads it>>.
ZeroBytes == Null
CsvOf(dates) == Some(dates)

\* what a call returns: a frame, or the exception it ends with
Returned(rows) == [raised |-> FALSE, rows |-> rows]
Raised == [raised |-> TRUE, rows |-> <<>>]

\* sort_values("Date"): ascending, NaT last
RECURSIVE SortDates(_)
SortDates(ds) ==
    IF ds = <<>> THEN <<>>
    ELSE LET before(a, b) == IsNull(b) \/ (~IsNull(a) /\ Val(a) <= Val(b))
             m == CHOOSE i \in 1..Len(ds) : \A j \in 1..Len(ds) : before(ds[i], ds[j])
         IN  <<ds[m]>> \o SortDates(SubSeq(ds, 1, m - 1) \o SubSeq(ds, m + 1, Len(ds)))

\* _load_prices if read_csv read a file of zero bytes as a frame without rows
LoadPricesLenient(csv) ==
    IF IsNull(csv) THEN Returned(<<>>)
    ELSE Returned(SelectSeq(SortDates(Val(csv)), LAMBDA d : ~IsNull(d)))

\* _load_prices(csv_path): pd.read_csv raises EmptyDataError on a file with
\* no columns; else the rows with a Date, sorted
LoadPrices(csv) ==
    IF IsNull(csv) THEN Raised
    ELSE Returned(SelectSeq(SortDates(Val(csv)), LAMBDA d : ~IsNull(d)))

\* prices.empty or prices["Date"].isna().all()
EmptyOrInvalid(rows) == rows = <<>> \/ \A i \in 1..Len(rows) : IsNull(rows[i])

\* str(row.get("Ticker", "")) for the one-letter tickers of the model
TickerText(r) == IF IsNull(r.Ticker) THEN <<"n", "a", "n">> ELSE <<Val(r.Ticker)>>

FileA == File(<<"A">>, Csv)
FileB == File(<<"B", "_", "U", "S">>, Csv)
FileC == File(<<"C">>, Csv)
LoopListings ==
    {SelectSeq(<<FileB, FileA, FileC>>, LAMBDA f : f \in S) : S \in SUBSET {FileA, FileB, FileC}}
CsvContents ==
    { ZeroBytes, CsvOf(<<>>), CsvOf(<<Null, Null>>), CsvOf(<<Some(2), Null, Some(1)>>) }
LoopTickers == {"A", "B", "C"}
LoopRows == {Row(Some(t), Some(1), Some(50), Some("UP")) : t \in LoopTickers}
\* the filtered tables: one row per ticker, in ticker order
LoopTables ==
    {df \in SeqsUpTo(LoopRows, MaxRows) :
        /\ df # <<>>
        /\ \A i \in 1..Len(df) - 1 : StrLess(Val(df[i].Ticker), Val(df[i + 1].Ticker))}

LoopIdle ==
    /\ show_details = <<>>
    /\ price_files = <<>>
    /\ loop_i = 0
    /\ loop_pc = "idle"
    /\ sections = <<>>

\* render_share_tab has written its summary line and enters the loop
InitLoop ==
    /\ pred_df \in LoopTables
    /\ latest_df = pred_df
    /\ work_df = pred_df
    /\ total_cnt = Len(pred_df)
    /\ shown_cnt = Len(pred_df)
    /\ share_pc = "done"
    /\ include_up = TRUE
    /\ include_down = TRUE
    /\ prob_range = <<0, 100>>
    /\ sort_option = "Alphabetical (Ticker)"
    /\ limit_option = AllLimit
    /\ prob_pc = "idle"
    /\ result_df = <<>>
    /\ sort_in = <<>>
    /\ sort_out = <<>>
    /\ again_df = <<>>
    /\ \E l \in LoopListings :
          /\ prices_dir = Some(l)
          /\ price_files \in [Range(l) -> CsvContents]
    /\ price_idx = BuildIndex(prices_dir)
    /\ resolve_pc = "indexed"
    /\ ticker = <<>>
    /\ price_path = Null
    /\ show_details \in [LoopTickers -> BOOLEAN]
    /\ loop_i = 1
    /\ loop_pc = "loop"
    /\ sections = <<>>

Section(t, shown) == [ticker |-> t, shown |-> shown]

\* One pass of the body of "for _, row in work_df.iterrows()"
\* (share_tab.py 167-314)
RenderTickerSection ==
    /\ loop_pc = "loop"
    /\ loop_i <= Len(work_df)
    /\ LET row == work_df[loop_i]
           t == Strip(TickerText(row))
           path == ResolvePath(t, price_idx)
           prices == LoadPrices(price_files[Val(path)])
       IN  /\ ticker' = t
           /\ IF t = <<>>
              THEN /\ sections' = Append(sections, Section(t, "skipped"))
                   /\ UNCHANGED <<price_path, loop_pc>>
              ELSE IF ~show_details[Val(row.Ticker)]
              THEN /\ sections' = Append(sections, Section(t, "collapsed"))
                   /\ UNCHANGED <<price_path, loop_pc>>
              ELSE /\ price_path' = path
                   /\ IF IsNull(path)
                      THEN /\ sections' = Append(sections, Section(t, "no_price_warning"))
                           /\ UNCHANGED loop_pc
                      ELSE IF prices.raised
                      THEN /\ loop_pc' = "raised"
                           /\ UNCHANGED sections
                      ELSE IF EmptyOrInvalid(prices.rows)
                      THEN /\ sections' = Append(sections, Section(t, "invalid_warning"))
                           /\ UNCHANGED loop_pc
                      ELSE /\ sections' = Append(sections, Section(t, "charts"))
                           /\ UNCHANGED loop_pc
    /\ loop_i' = loop_i + 1
    /\ UNCHANGED <<show_details, price_files, prices_dir, price_idx, resolve_pc>>
    /\ UNCHANGED <<tabVars, loadVars, reportVars, featVars, uiVars, cacheVars>>

\* the loop has gone through every row: render_share_tab returns
EndTickerLoop ==
    /\ loop_pc = "loop"
    /\ loop_i > Len(work_df)
    /\ loop_pc' = "end"
    /\ UNCHANGED <<show_details, price_files, loop_i, sections>>
    /\ UNCHANGED <<tabVars, resolveVars, loadVars, reportVars, featVars, uiVars, cacheVars>>

\* ------------------------------------------------------- st.cache_data

\* the lookup that finds nothing
CacheMiss(cache, path) == Null

\* the entry st.cache_data holds for the argument of the call, if any
CacheGet(cache, path) == IF path \in DOMAIN cache THEN Some(cache[path]) ELSE Null

\* an entry is stored when the function has returned
CachePut(cache, path, value) == (path :> value) @@ cache

\* The call f(path) of a function decorated with @st.cache_data, f(path)
\* evaluating to out: the stored value on a hit; on a miss the function
\* runs, and its value is stored unless it raised.
CachedOutcome(cache, path, out) ==
    IF IsNull(CacheGet(cache, path)) THEN out ELSE Returned(Val(CacheGet(cache, path)))
CacheAfter(cache, path, out) ==
    IF IsNull(CacheGet(cache, path)) /\ ~out.raised
    THEN CachePut(cache, path, out.rows)
    ELSE cache

PredsPath == "results_stock_prediction.json"
PricePaths == {FileA, FileB}

\* _load_prices(path) on the directory files: read_csv raises
\* FileNotFoundError for a path that is not there
ReadPrices(files, path) ==
    IF path \in DOMAIN files THEN LoadPrices(files[path]) ELSE Raised

\* what the predictions file and a price file can hold
PredContents ==
    { Null,
      Some(DictRoot(<<"A">>, <<JList(<<JObj(("Date" :> JNum(0)) @@ ("ProbUp" :> JNum(70))
                                            @@ ("Signal" :> JStr("UP")))>>)>>)),
      Some(DictRoot(<<"B">>, <<JList(<<JObj(("Date" :> JNum(1)) @@ ("ProbUp" :> JStr("0.7"))
                                            @@ ("Signal" :> JStr("DOWN")))>>)>>)) }
PriceContents == { ZeroBytes, CsvOf(<<>>), CsvOf(<<Some(2), Null, Some(1)>>) }
\* the directory: the files that exist, each with its content
PriceDirs == UNION {[S -> PriceContents] : S \in SUBSET PricePaths}

NoCall == [fn |-> "none", path |-> "", out |-> Raised]
Call(fn, path, out) == [fn |-> fn, path |-> path, out |-> out]

CacheIdle ==
    /\ cache_predictions = <<>>
    /\ cache_prices = <<>>
    /\ returned = NoCall
    /\ first_predictions = <<>>
    /\ first_prices = <<>>

\* the process has started: nothing is cached
InitCache ==
    /\ CacheIdle
    /\ json_file \in PredContents
    /\ loaded_df = EmptyFrame
    /\ load_pc = "idle"
    /\ price_files \in PriceDirs
    /\ show_details = <<>>
    /\ loop_i = 0
    /\ loop_pc = "idle"
    /\ sections = <<>>

\* a render calls load_predictions(preds_path)
\* (share_tab.py 117, probability_tab.py 23)
CallLoadPredictions ==
    LET out == CachedOutcome(cache_predictions, PredsPath, Returned(LoadJson(json_file)))
    IN  /\ cache_predictions' = CacheAfter(cache_predictions, PredsPath,
                                           Returned(LoadJson(json_file)))
        /\ returned' = Call("load_predictions", PredsPath, out)
        /\ loaded_df' = out.rows
        /\ load_pc' = "loaded"
        /\ first_predictions' =
              IF PredsPath \in DOMAIN first_predictions \/ out.raised
              THEN first_predictions
              ELSE (PredsPath :> out.rows) @@ first_predictions
        /\ UNCHANGED <<json_file, cache_prices, first_prices>>
        /\ UNCHANGED <<tabVars, resolveVars, reportVars, featVars, uiVars, loopVars>>

\* a render calls _load_prices(price_path)   (share_tab.py 208)
CallLoadPrices ==
    \E path \in PricePaths :
        LET out == CachedOutcome(cache_prices, path, ReadPrices(price_files, path))
        IN  /\ cache_prices' = CacheAfter(cache_prices, path, ReadPrices(price_files, path))
            /\ returned' = Call("_load_prices", path, out)
            /\ first_prices' =
                  IF path \in DOMAIN first_prices \/ out.raised
                  THEN first_prices
                  ELSE (path :> out.rows) @@ first_prices
            /\ UNCHANGED <<cache_predictions, first_predictions>>
            /\ UNCHANGED <<show_details, price_files, loop_i, loop_pc, sections>>
            /\ UNCHANGED <<tabVars, resolveVars, loadVars, reportVars, featVars, uiVars>>

\* Between two calls the predictions file is created, changed or removed.
ChangePredictionsFile ==
    /\ \E c \in PredContents \ {json_file} : json_file' = c
    /\ UNCHANGED <<loaded_df, load_pc>>
    /\ UNCHANGED <<tabVars, resolveVars, reportVars, featVars, uiVars, loopVars, cacheVars>>

\* Between two calls a price file is created, changed or removed.
ChangePriceFile ==
    /\ \E d \in PriceDirs \ {price_files} :
          /\ Cardinality({p \in PricePaths :
                 (p \in DOMAIN d) # (p \in DOMAIN price_files)
                 \/ (p \in DOMAIN d /\ p \in DOMAIN price_files /\ d[p] # price_files[p])}) = 1
          /\ price_files' = d
    /\ UNCHANGED <<show_details, loop_i, loop_pc, sections>>
    /\ UNCHANGED <<tabVars, resolveVars, loadVars, reportVars, featVars, uiVars, cacheVars>>

\* ------------------------------------------------------------- app.py

\* the options of the two select boxes and the positions of the slider
SortChoices == SortOptions
LimitChoices == { IntLimit(10), IntLimit(20), IntLimit(30), AllLimit }
SliderChoices == { <<0, 100>>, <<30, 70>>, <<50, 50>> }

\* the tables the dashboard is started on
AppTables ==
    { <<>>,
      << Row(Some("A"), Some(1), Some(70), Some("UP")),
         Row(Some("B"), Some(1), Some(70), Some("down")),
         Row(Some("A"), Some(2), Some(30), Some("DOWN")) >> }

UiIdle ==
    /\ global_include_up = TRUE
    /\ global_include_down = TRUE
    /\ global_sort_order = "ProbUp descending"
    /\ global_limit = IntLimit(10)
    /\ global_prob_range = <<0, 100>>
    /\ event = "start"
    /\ rechecked = Null

\* the first script run has not happened yet
InitApp ==
    /\ UiIdle
    /\ TabsIdle
    /\ pred_df \in AppTables
    /\ include_up = TRUE
    /\ include_down = TRUE
    /\ prob_range = <<0, 100>>
    /\ sort_option = "ProbUp descending"
    /\ limit_option = IntLimit(10)

\* main(): the widgets return the session state, which is handed to the
\* share tab and then to the probability tab (app.py 23-77)
Main(up, down, opt, lim, pr) ==
    /\ include_up' = up
    /\ include_down' = down
    /\ sort_option' = opt
    /\ limit_option' = lim
    /\ prob_range' = pr
    /\ ShareTabRun(pred_df, up, down, pr, opt, lim)
    /\ ProbabilityTabRun(pred_df, up, down, pr, opt, lim)
    /\ UNCHANGED <<pred_df, again_df>>
    /\ UNCHANGED notApp

\* _global_up_changed without its assignment
UpChangedNoRecheck(up, down) == [up |-> up, down |-> down, set |-> Null]

\* _global_up_changed on the session state (up, down): the state it leaves
UpChanged(up, down) ==
    IF ~up /\ ~down
    THEN [up |-> up, down |-> TRUE, set |-> Some("global_include_down")]
    ELSE [up |-> up, down |-> down, set |-> Null]

\* _global_down_changed
DownChanged(up, down) ==
    IF ~down /\ ~up
    THEN [up |-> TRUE, down |-> down, set |-> Some("global_include_up")]
    ELSE [up |-> up, down |-> down, set |-> Null]

\* The user clicks "Include UP": the widget value flips, the callback runs,
\* the script runs again.
ToggleUp ==
    LET after == UpChanged(~global_include_up, global_include_down)
    IN  /\ global_include_up' = after.up
        /\ global_include_down' = after.down
        /\ rechecked' = after.set
        /\ event' = "global_include_up"
        /\ UNCHANGED <<global_sort_order, global_limit, global_prob_range>>
        /\ Main(after.up, after.down, global_sort_order, global_limit, global_prob_range)

\* The user clicks "Include DOWN".
ToggleDown ==
    LET after == DownChanged(global_include_up, ~global_include_down)
    IN  /\ global_include_up' = after.up
        /\ global_include_down' = after.down
        /\ rechecked' = after.set
        /\ event' = "global_include_down"
        /\ UNCHANGED <<global_sort_order, global_limit, global_prob_range>>
        /\ Main(after.up, after.down, global_sort_order, global_limit, global_prob_range)

\* The user picks a sort order, a limit, or moves the slider.
ChooseSort ==
    \E opt \in SortChoices :
        /\ opt # global_sort_order
        /\ global_sort_order' = opt
        /\ event' = "global_sort_order"
        /\ rechecked' = Null
        /\ UNCHANGED <<global_include_up, global_include_down, global_limit,
                       global_prob_range>>
        /\ Main(global_include_up, global_include_down, opt, global_limit,
                global_prob_range)

ChooseLimit ==
    \E lim \in LimitChoices :
        /\ lim # global_limit
        /\ global_limit' = lim
        /\ event' = "global_limit"
        /\ rechecked' = Null
        /\ UNCHANGED <<global_include_up, global_include_down, global_sort_order,
                       global_prob_range>>
        /\ Main(global_include_up, global_include_down, global_sort_order, lim,
                global_prob_range)

MoveSlider ==
    \E pr \in SliderChoices :
        /\ pr # global_prob_range
        /\ global_prob_range' = pr
        /\ event' = "global_prob_range"
        /\ rechecked' = Null
        /\ UNCHANGED <<global_include_up, global_include_down, global_sort_order,
                       global_limit>>
        /\ Main(global_include_up, global_include_down, global_sort_order,
                global_limit, pr)

\* The script runs with the session state as it is (the first run, a reload).
Rerun ==
    /\ event' = "rerun"
    /\ rechecked' = Null
    /\ UNCHANGED <<global_include_up, global_include_down, global_sort_order,
                   global_limit, global_prob_range>>
    /\ Main(global_include_up, global_include_down, global_sort_order, global_limit,
            global_prob_range)

\* ------------------------------------------------------ specifications

vars == <<tabVars, resolveVars, loadVars, reportVars, featVars, uiVars, loopVars, cacheVars>>

TabsUnused ==
    /\ TabsIdle
    /\ pred_df = <<>>
    /\ include_up = TRUE
    /\ include_down = TRUE
    /\ prob_range = <<0, 100>>
    /\ sort_option = "ProbUp descending"
    /\ limit_option = AllLimit

\* The two prediction tabs on a table and a FilterSpec drawn from the inputs.
InitSpecTabs == InitTabs /\ ResolveIdle /\ LoadIdle /\ ReportIdle /\ FeatIdle /\ UiIdle /\ LoopIdle /\ CacheIdle
NextTabs == RenderShareTab \/ RenderProbabilityTab \/ ReapplyPipeline
SpecTabs == InitSpecTabs /\ [][NextTabs]_vars

\* The resolver on a directory listing and a ticker drawn from the inputs.
InitSpecResolve == InitResolve /\ TabsUnused /\ LoadIdle /\ ReportIdle /\ FeatIdle /\ UiIdle /\ LoopIdle /\ CacheIdle
NextResolve == BuildPriceIndex \/ ResolvePricePath
SpecResolve == InitSpecResolve /\ [][NextResolve]_vars

\* The loader on a predictions file drawn from the inputs.
InitSpecLoad == InitLoad /\ TabsUnused /\ ResolveIdle /\ ReportIdle /\ FeatIdle /\ UiIdle /\ LoopIdle /\ CacheIdle
NextLoad == LoadPredictions
SpecLoad == InitSpecLoad /\ [][NextLoad]_vars

\* The report selection on a reports directory drawn from the inputs.
InitSpecReport == InitReport /\ TabsUnused /\ ResolveIdle /\ LoadIdle /\ FeatIdle /\ UiIdle /\ LoopIdle /\ CacheIdle
NextReport == SelectReport
SpecReport == InitSpecReport /\ [][NextReport]_vars

\* The feature-importance parser on report lines drawn from the inputs.
InitSpecFeat == InitFeat /\ TabsUnused /\ ResolveIdle /\ LoadIdle /\ ReportIdle /\ UiIdle /\ LoopIdle /\ CacheIdle
NextFeat == ParseFeatureImportances
SpecFeat == InitSpecFeat /\ [][NextFeat]_vars

\* The two tabs on the tables with a Signal in every row.
InitSpecPipeline == InitPipeline /\ ResolveIdle /\ LoadIdle /\ ReportIdle /\ FeatIdle /\ UiIdle /\ LoopIdle /\ CacheIdle
SpecPipeline == InitSpecPipeline /\ [][NextTabs]_vars

\* The ticker loop of the share tab.
InitSpecLoop == InitLoop /\ LoadIdle /\ ReportIdle /\ FeatIdle /\ UiIdle /\ CacheIdle
NextLoop == RenderTickerSection \/ EndTickerLoop
SpecLoop == InitSpecLoop /\ [][NextLoop]_vars

\* The cached loaders over a session in which the files change.
InitSpecCache == InitCache /\ TabsUnused /\ ResolveIdle /\ ReportIdle /\ FeatIdle /\ UiIdle
NextCache == CallLoadPredictions \/ CallLoadPrices \/ ChangePredictionsFile \/ ChangePriceFile
SpecCache == InitSpecCache /\ [][NextCache]_vars

\* The dashboard: the script runs once for every change of a sidebar widget.
InitSpec == InitApp /\ ResolveIdle /\ LoadIdle /\ ReportIdle /\ FeatIdle /\ LoopIdle /\ CacheIdle
Next == ToggleUp \/ ToggleDown \/ ChooseSort \/ ChooseLimit \/ MoveSlider \/ Rerun
Spec == InitSpec /\ [][Next]_vars

\* ============================================================ the claims
\* ------------------------------------------------ prediction tabs (SpecTabs)

ProbDone == prob_pc \in {"done", "again"}

\* C1: with includeUp = includeDown = false the pipeline returns what it
\* returns with both true: the frame left by the two filters is the same
\* frame (so sort_values is handed the same input), the tables the pipeline
\* can return are the same tables, and the table rendered is one of them.
C1_FallbackSameAsBoth ==
    /\ (share_pc = "done" /\ ~include_up /\ ~include_down) =>
          /\ Filtered(latest_df, FALSE, FALSE, prob_range)
                = Filtered(latest_df, TRUE, TRUE, prob_range)
          /\ PipelineOutcomes(latest_df, FALSE, FALSE, prob_range, sort_option, limit_option)
                = PipelineOutcomes(latest_df, TRUE, TRUE, prob_range, sort_option, limit_option)
          /\ work_df \in PipelineOutcomes(latest_df, TRUE, TRUE, prob_range,
                                          sort_option, limit_option)
    /\ (ProbDone /\ ~include_up /\ ~include_down) =>
          /\ sort_in = Filtered(pred_df, TRUE, TRUE, prob_range)
          /\ result_df \in PipelineOutcomes(pred_df, TRUE, TRUE, prob_range,
                                            sort_option, limit_option)

\* Both flags false, and the fallback mattered: rows of each signal are
\* shown while a row of another signal was filtered out.
C1_Witness ==
    /\ ProbDone /\ share_pc = "done"
    /\ ~include_up /\ ~include_down
    /\ \E i, j \in 1..Len(result_df) :
          Signal_u(result_df[i]) = "UP" /\ Signal_u(result_df[j]) = "DOWN"
    /\ Len(sort_in) < Len(pred_df)
    /\ work_df # <<>>

\* C2: the pipeline applied to its own output, with the same FilterSpec,
\* returns the same rows in the same order.
C2_Idempotent == prob_pc = "again" => again_df = result_df

\* ---- the reduction

TickersOf(df) == {Val(df[i].Ticker) : i \in {k \in 1..Len(df) : ~IsNull(df[k].Ticker)}}
RowsOf(df, t) == {df[i] : i \in {k \in 1..Len(df) : df[k].Ticker = Some(t)}}
Dated(rows) == {r \in rows : ~IsNull(r.Date)}
\* the records of ticker t with its most recent Date (those with a Date)
MostRecent(df, t) ==
    {r \in Dated(RowsOf(df, t)) : \A q \in Dated(RowsOf(df, t)) : Val(q.Date) <= Val(r.Date)}
CountOf(df, t) == Cardinality({i \in 1..Len(df) : df[i].Ticker = Some(t)})
PassesFilters(r) ==
    Filtered(<<r>>, include_up, include_down, prob_range) = <<r>>

\* C3: the reduction returns exactly one row per distinct non-null Ticker,
\* and for a ticker with a record that has a Date the row kept is one with
\* the most recent Date among that ticker's records.
C3_LatestRowKept ==
    share_pc = "done" =>
        /\ TickersOf(latest_df) = TickersOf(pred_df)
        /\ \A i \in 1..Len(latest_df) : ~IsNull(latest_df[i].Ticker)
        /\ \A t \in TickersOf(pred_df) :
              /\ CountOf(latest_df, t) = 1
              /\ Dated(RowsOf(pred_df, t)) # {} =>
                    RowsOf(latest_df, t) \subseteq MostRecent(pred_df, t)

\* C4: the reduction comes before the filters: a ticker is listed only if
\* its latest record passes the signal and probability filters, and the
\* total reported is the number of tickers after the reduction.
C4_ReduceBeforeFilter ==
    share_pc = "done" =>
        /\ total_cnt = Cardinality(TickersOf(pred_df))
        /\ shown_cnt = Len(work_df)
        /\ \A t \in TickersOf(work_df) :
              /\ CountOf(work_df, t) = 1
              /\ Dated(RowsOf(pred_df, t)) # {} =>
                    \E r \in MostRecent(pred_df, t) : PassesFilters(r)

\* C5: the table of the probability tab holds at most one row per ticker,
\* the ticker's most recent prediction.
C5_ProbabilityTabLatest ==
    ProbDone =>
        \A t \in TickersOf(result_df) :
            /\ CountOf(result_df, t) = 1
            /\ Dated(RowsOf(pred_df, t)) # {} =>
                  RowsOf(result_df, t) \subseteq MostRecent(pred_df, t)


\* ---- the range filter and the limit (SpecPipeline)

Times(df, r) == Cardinality({i \in 1..Len(df) : df[i] = r})
SameRows(a, b) == \A r \in Range(a) \cup Range(b) : Times(a, r) = Times(b, r)
SignalPasses(r) == Signal_u(r) \in Range(SignalsSelected(include_up, include_down))
InProbRange(r) ==
    /\ ~IsNull(r.ProbUp)
    /\ prob_range[1] <= Val(r.ProbUp)
    /\ Val(r.ProbUp) <= prob_range[2]
Passing(df) == SelectSeq(df, LAMBDA r : SignalPasses(r) /\ InProbRange(r))

\* C11: for a range 0 <= probMin <= probMax <= 1 the filter keeps exactly
\* the signal-passing rows with probMin <= ProbUp <= probMax, both bounds
\* included, in their order; a row without a ProbUp is in no output.
C11_RangeInclusive ==
    /\ ProbDone =>
          /\ sort_in = Passing(pred_df)
          /\ \A i \in 1..Len(result_df) : InProbRange(result_df[i])
    /\ share_pc = "done" =>
          /\ \A i \in 1..Len(work_df) : InProbRange(work_df[i])
          /\ limit_option = AllLimit => SameRows(work_df, Passing(latest_df))

\* The range 0.30..0.70 with a row on each bound kept, a row above the range
\* and a signal-passing row without a ProbUp dropped.
C11_Witness ==
    /\ ProbDone
    /\ prob_range = <<30, 70>>
    /\ \E i, j \in 1..Len(sort_in) :
          sort_in[i].ProbUp = Some(30) /\ sort_in[j].ProbUp = Some(70)
    /\ \E i \in 1..Len(pred_df) : SignalPasses(pred_df[i]) /\ IsNull(pred_df[i].ProbUp)
    /\ Len(sort_in) = Len(pred_df) - 1

Kept(n, df) == Min(n, Len(df))
\* row k may stand before row c in the order opt asks for
NotAfter(k, c, opt) ==
    CASE opt = "ProbUp descending" -> Val(k.ProbUp) >= Val(c.ProbUp)
      [] opt = "ProbUp ascending" -> Val(k.ProbUp) <= Val(c.ProbUp)
      [] OTHER -> IsNull(c.Ticker)
                  \/ (~IsNull(k.Ticker) /\ ~StrLess(Val(c.Ticker), Val(k.Ticker)))
\* out is some n first rows of inp in the order opt
FirstOfSorted(inp, out) ==
    IF limit_option.kind = "int"
    THEN LET cut == {r \in Range(inp) : Times(out, r) < Times(inp, r)}
         IN  /\ Len(out) = Kept(limit_option.n, inp)
             /\ \A r \in Range(out) : Times(out, r) <= Times(inp, r)
             /\ \A k \in Range(out) : \A c \in cut : NotAfter(k, c, sort_option)
    ELSE SameRows(out, inp)

\* C12: the limit is applied after the sort: with an integer limit n the
\* output has min(n, rows passing the filters) rows, they are the first
\* rows of the sorted table, and every row kept stands before every row cut
\* in the chosen order; with "All" every passing row is kept.
C12_LimitAfterSort ==
    /\ ProbDone =>
          LET passing == Passing(pred_df)
          IN  /\ SameRows(sort_out, passing)
              /\ IsSorted(sort_out, sort_option)
              /\ result_df = SubSeq(sort_out, 1, Len(result_df))
              /\ FirstOfSorted(passing, result_df)
    /\ share_pc = "done" =>
          LET passing == Passing(latest_df)
          IN  /\ IsSorted(work_df, sort_option)
              /\ FirstOfSorted(passing, work_df)

\* Limit 2 of three passing rows under "ProbUp descending": the row cut has
\* a smaller ProbUp than both rows kept, and stood first in the input.
C12_Witness ==
    /\ ProbDone
    /\ limit_option = IntLimit(2)
    /\ sort_option = "ProbUp descending"
    /\ Len(sort_in) = 3
    /\ Len(result_df) = 2
    /\ Val(sort_in[1].ProbUp) < Val(result_df[2].ProbUp)
    /\ sort_out[3] = sort_in[1]

\* ------------------------------------------------ resolver (SpecResolve)

CsvFiles == IF IsNull(prices_dir) THEN {}
            ELSE {f \in Range(Val(prices_dir)) : IsCsv(f)}
HasUnderscore(s) == \E i \in 1..Len(s) : s[i] = "_"
\* stem = P ++ "_" ++ suffix with no underscore in P
NamedPSuffix(f, P) ==
    /\ ~HasUnderscore(P)
    /\ Len(f.stem) > Len(P)
    /\ SubSeq(f.stem, 1, Len(P)) = P
    /\ f.stem[Len(P) + 1] = "_"
SameLetters(a, b) == Lower(a) = Lower(b)
StemStart(f, n) == SubSeq(f.stem, 1, Min(n, Len(f.stem)))

\* C6: when the only CSV file of the directory is P_<suffix>.csv, ticker P
\* in any letter case resolves to that file; a ticker none of whose
\* lower-cased variants is a key of the index resolves to None.
C6_ResolvePrefix ==
    resolve_pc = "resolved" =>
        /\ \A f \in CsvFiles :
              (/\ CsvFiles = {f}
               /\ NamedPSuffix(f, StemStart(f, Len(ticker)))
               /\ SameLetters(ticker, StemStart(f, Len(ticker))))
              => price_path = Some(f)
        /\ ({ Lower(ticker), Lower(Replace(ticker, "-", <<"_">>)),
              Lower(Replace(ticker, "-", <<>>)), Lower(Replace(ticker, ".", <<"-">>)),
              Lower(Replace(ticker, ".", <<>>)) } \cap DOMAIN price_idx = {})
              => price_path = Null

\* The ticker differs from the prefix in case, and is found through it.
C6_Witness ==
    /\ resolve_pc = "resolved"
    /\ ticker = <<"a", "B">>
    /\ CsvFiles = {File(<<"A", "B", "_", "U", "S">>, Csv)}
    /\ Len(Val(prices_dir)) = 2
    /\ price_path = Some(File(<<"A", "B", "_", "U", "S">>, Csv))

\* A ticker with no key in a non-empty index resolves to None.
C6_WitnessAbsent ==
    /\ resolve_pc = "resolved"
    /\ ticker = <<"Z">>
    /\ DOMAIN price_idx # {}
    /\ price_path = Null

\* the CSV files named as the ticker, letter case apart
NamedAsTicker == {f \in CsvFiles : SameLetters(f.stem, ticker)}

\* C15: whatever files the directory holds and in whatever order it lists
\* them, when a CSV file's name without extension is the ticker (letter
\* case apart), the ticker resolves to such a file, not to a file that
\* reaches the same index key through its prefix or a variant of it.
C15_ExactStemWins ==
    (resolve_pc = "resolved" /\ NamedAsTicker # {}) =>
        /\ price_path # Null
        /\ Val(price_path) \in NamedAsTicker

\* ---------------------------------------------------- loader (SpecLoad)

\* C7: a root that maps each ticker to a list of objects without a Ticker
\* field loads to the same table (columns, records in order, coerced Date
\* and ProbUp) as the flat list whose objects carry their key as Ticker.
C7_DictSameAsFlat ==
    (load_pc = "loaded" /\ ~IsNull(json_file) /\ IsDictOfObjectLists(Val(json_file))) =>
        /\ loaded_df = LoadJson(Some(FlatOf(Val(json_file))))
        /\ Len(loaded_df.rows) = Len(FlatOf(Val(json_file)).v)
        /\ Range(RequiredColumns) \subseteq loaded_df.columns

\* Two tickers with lists, a text ProbUp that is coerced, a missing field.
C7_Witness ==
    /\ load_pc = "loaded"
    /\ ~IsNull(json_file)
    /\ IsDictOfObjectLists(Val(json_file))
    /\ Len(Val(json_file).v) = 2
    /\ Len(loaded_df.rows) >= 3
    /\ \E i, j \in 1..Len(loaded_df.rows) :
          /\ loaded_df.rows[i]["Ticker"] = JStr("A")
          /\ loaded_df.rows[j]["Ticker"] = JStr("B")
          /\ loaded_df.rows[i]["ProbUp"] = Some(70)
          /\ loaded_df.rows[j]["Date"] = Null

\* ------------------------------------------- report selection (SpecReport)

\* names of the form Klassifikationsreport_<8 digits>_<6 digits>.txt
IsCandidate(f) == IsReportFile(f) /\ IsTimestampText(f.body)
Candidates == IF IsNull(reports_dir) THEN {}
              ELSE {f \in Range(Val(reports_dir)) : IsCandidate(f)}

\* C8: only names of the form Klassifikationsreport_<8 digits>_<6 digits>.txt
\* are candidates and the file chosen is the candidate with the latest
\* timestamp; a name without timestamp is never chosen and never changes
\* the choice.
C8_LatestCandidateChosen ==
    report_pc = "chosen" =>
        /\ IsCandidate(Val(latest_file))
        /\ \A f \in Candidates : ~FileLess(Val(latest_file), f)

\* ----------------------------------------- feature importances (SpecFeat)

HeaderAt == FeatHeaderIdx(lines)
\* the first line after the header that is blank or starts with dtype:
StopAt ==
    LET stops == {k \in (HeaderAt + 1)..Len(lines) : EndsBlock(Strip(lines[k]))}
    IN  IF stops = {} THEN Len(lines) + 1 ELSE CHOOSE k \in stops : \A j \in stops : k <= j
OfShape(ln) == HasImportance(Split(ln))
\* the lines that contribute
Contributing ==
    IF HeaderAt = 0 THEN {}
    ELSE {k \in (HeaderAt + 1)..(StopAt - 1) : OfShape(lines[k])}
Shown == IF IsNull(feature_df) THEN <<>> ELSE Val(feature_df)

FileOfRow(r) == ResolvePath(Strip(TickerText(r)), price_idx)
Unresolved(r) == IsNull(FileOfRow(r))
\* empty or all-null price data: no row of the file has a Date
NoPriceData(r) ==
    LET csv == price_files[Val(FileOfRow(r))]
    IN  IsNull(csv) \/ \A i \in 1..Len(Val(csv)) : IsNull(Val(csv)[i])
Expected(r) ==
    IF ~show_details[Val(r.Ticker)] THEN "collapsed"
    ELSE IF Unresolved(r) THEN "no_price_warning"
    ELSE IF NoPriceData(r) THEN "invalid_warning"
    ELSE "charts"

\* C13: a ticker without a resolvable price file, or with empty or all-null
\* price data, gets a warning and no charts, and nothing else changes: the
\* render never stops inside the loop, and at its end every row of the
\* filtered table has its section, with charts for exactly the tickers whose
\* details are shown and whose file has dated rows.
C13_WarningSkipsOnlyThatTicker ==
    /\ loop_pc # "raised"
    /\ loop_pc \in {"loop", "end"} =>
          \A i \in 1..Len(sections) :
              /\ sections[i].ticker = Strip(TickerText(work_df[i]))
              /\ sections[i].shown = Expected(work_df[i])
    /\ loop_pc = "end" => Len(sections) = Len(work_df)

\* ---------------------------------------------------- caching (SpecCache)

Rendered == share_pc # "idle"

\* C10: from both boxes checked, after any toggles of "Include UP" and
\* "Include DOWN", each with its callback, one of global_include_up and
\* global_include_down is true whenever the page is rendered (and so is one
\* of the flags handed to the tabs); unchecking the last checked box
\* re-checks the other one.
C10_OneSignalIncluded ==
    /\ [](/\ global_include_up \/ global_include_down
          /\ Rendered => (/\ include_up = global_include_up
                          /\ include_down = global_include_down))
    /\ [][(event' = "global_include_up" /\ global_include_up /\ ~global_include_down)
            => (~global_include_up' /\ global_include_down')]_vars
    /\ [][(event' = "global_include_down" /\ global_include_down /\ ~global_include_up)
            => (~global_include_down' /\ global_include_up')]_vars

\* "Include UP" was the only box checked and was just unchecked: the
\* callback has checked "Include DOWN" and the page shows DOWN rows only.
C10_Witness ==
    /\ event = "global_include_up"
    /\ rechecked = Some("global_include_down")
    /\ ~global_include_up
    /\ global_include_down
    /\ share_pc = "done"
    /\ ~include_up /\ include_down
    /\ \A i \in 1..Len(result_df) : Signal_u(result_df[i]) = "DOWN"
    /\ result_df # <<>>

====
